---- MODULE Spec2Model ----
(***************************************************************************)
(* A model of the dependency-and-usage extraction core of the repository:  *)
(*   src/src/c/tools/analyze_python_ast.py  (import/usage scan, report)    *)
(*   src/src/c/tools/dependency_tools.py    (manifest extraction)          *)
(*                                                                         *)
(* Python strings are sequences of one-character strings, so that          *)
(* splitting, stripping and lower-casing are computed and not assumed.     *)
(* A dotted name ("pd.read_csv") is kept as the sequence of its            *)
(* components, i.e. as the value of str.split('.'); the empty string is    *)
(* therefore a sequence holding one empty component.  Source code lines,  *)
(* which the program only copies, are sequences of characters too.         *)
(***************************************************************************)
EXTENDS Integers, Sequences, FiniteSets, TLC

VARIABLES
    \* ---- the project ----
    projectPath,   \* "repo": an existing directory; "missing": a path that
                   \* does not exist; "": the empty string
    csvExists,     \* all_dependencies_with_paths.csv is present in the project
    csvRows,       \* its rows (as written by to_csv)
    \* ---- generate_ast_usage_pdf / analyze_repo ----
    scanPc,        \* "idle" | "start" | "walk" | "report" | "done"
    results,       \* analyze_repo's result list
    nScanned,      \* number of .py files the walk has yielded so far
    sizeUsed,      \* size of the part of the tree walked so far (model bound)
    lastFile,      \* [path, file, before]: the file ScanFile handled last
    toolOut,       \* what the tool returned: "none" | "ok" | an error text
    pdfWritten,    \* ast_report.pdf has been written

    pdf,           \* the entries rendered into it
    \* ---- extract_project_dependencies ----
    extPc,            \* "idle" | "manifests" | "write" | "done"
    files,            \* the files of the tree, in os.walk order
    tomlAcceptsText,  \* tomli.load takes a file opened in text mode (tomli 1.x)
    all_dependencies, \* the list the tool builds
    mIdx,             \* position in the loops over the manifest files
    lastExtract,      \* [idx, failed, before]: the manifest handled last
    extOut,           \* what the tool returned: "none" | "ok" | "raised"
    run,              \* 1 or 2: the second run is on the unchanged tree
    firstCsv,         \* the CSV the first run wrote
    \* ---- load_dependency_versions_with_resolution ----
    resPc,             \* "idle" | "rows" | "done"
    resolved_versions, \* the dict it builds
    rowIdx,            \* the row the loop is at
    \* ---- split_dependency ----
    splPc,             \* "idle" | "call" | "done"
    specifier,         \* the string it is called on
    splitResult,       \* what it returned
    \* ---- extract_python_file_dependencies on one file ----
    infPc,             \* "idle" | "lines" | "done"
    sourceFile,        \* the file whose lines the loop reads
    lineIdx,           \* the line the loop is at
    found,             \* the modules added to the set so far
    mainSpecIsNone,    \* the interpreter was started on a script file:
                       \* __main__.__spec__ is None
    \* ---- Automation.crew and its kickoff ----
    crewPc,            \* "idle" | "new" | "run" | "done"
    repoUrlSet,        \* os.getenv("REPO_URL") is set
    tasks,             \* the task list the crew is built with
    taskIdx,           \* the task the sequential process is at
    executed           \* the tasks executed so far, in order

projVars == <<projectPath, csvExists, csvRows>>
scanVars == <<scanPc, results, nScanned, sizeUsed, lastFile, toolOut, pdfWritten, pdf>>
extVars  == <<extPc, files, tomlAcceptsText, all_dependencies, mIdx, lastExtract,
              extOut, run, firstCsv>>

resVars  == <<resPc, resolved_versions, rowIdx>>

splitVars == <<splPc, specifier, splitResult>>

inferVars == <<infPc, sourceFile, lineIdx, found, mainSpecIsNone>>

crewVars == <<crewPc, repoUrlSet, tasks, taskIdx, executed>>

vars == <<projVars, scanVars, extVars, resVars, splitVars, inferVars, crewVars>>

(***************************************************************************)
(* Bounds                                                                  *)
(***************************************************************************)
\* size of a walked tree: each file counts 1 plus its number of statements
MaxTreeSize == 5
\* number of files of a tree handed to the manifest extraction
MaxFiles == 2
\* number of rows of a CSV handed to the version resolution
MaxRows == 3
\* number of pieces a specifier handed to split_dependency is built from
MaxPieces == 3
\* number of lines of the source file read line by line
MaxLines == 3

\* os.path.exists(project_path)
ProjectExists == projectPath = "repo"

(***************************************************************************)
(* Identifiers and texts used by the inputs                                *)
(***************************************************************************)
id_pd        == <<"p", "d">>
id_pandas    == <<"p", "a", "n", "d", "a", "s">>
id_numpy     == <<"n", "u", "m", "p", "y">>
id_os        == <<"o", "s">>
id_path      == <<"p", "a", "t", "h">>
id_read_csv  == <<"r", "e", "a", "d", "_", "c", "s", "v">>
id_DataFrame == <<"D", "a", "t", "a", "F", "r", "a", "m", "e">>
id_deco      == <<"d", "e", "c", "o">>
id_dflt      == <<"d", "f", "l", "t">>
id_body      == <<"b", "o", "d", "y">>
id_join      == <<"j", "o", "i", "n">>
s_latest     == <<"l", "a", "t", "e", "s", "t">>
s_python     == <<"p", "y", "t", "h", "o", "n">>
s_nan        == <<"n", "a", "n">>
s_unknown    == <<"u", "n", "k", "n", "o", "w", "n">>
EmptyStr     == <<>>
None         == <<"N", "o", "n", "e">>   \* str(None)

(***************************************************************************)
(* Syntax trees (the ast module's nodes).  kids holds the child nodes in   *)
(* the order of the node class's _fields, which is the order in which      *)
(* NodeVisitor.generic_visit walks them.                                   *)
(***************************************************************************)
Node(kind, lineno, name, asname, module, kids) ==
    [kind |-> kind, lineno |-> lineno, name |-> name, asname |-> asname,
     module |-> module, kids |-> kids]

NameNode(id, l)          == Node("Name", l, <<id>>, <<>>, <<>>, <<>>)
AttributeNode(v, a, l)   == Node("Attribute", l, <<a>>, <<>>, <<>>, <<v>>)
\* Call._fields = (func, args, keywords)
CallNode(func, args, l)  == Node("Call", l, <<>>, <<>>, <<>>, <<func>> \o args)
ExprNode(v, l)           == Node("Expr", l, <<>>, <<>>, <<>>, <<v>>)
\* Import._fields = (names,); one alias per statement
ImportNode(name, asname, l) == Node("Import", l, name, asname, <<>>, <<>>)
\* ImportFrom._fields = (module, names, level)
ImportFromNode(module, name, asname, l) ==
    Node("ImportFrom", l, name, asname, module, <<>>)
\* FunctionDef._fields = (name, args, body, decorator_list, returns, ...):
\* the defaults (inside args) come first, then the body, then the decorators
FunctionDefNode(defaults, body, decorators, l) ==
    Node("FunctionDef", l, <<>>, <<>>, <<>>, defaults \o body \o decorators)
\* ClassDef._fields = (name, bases, keywords, body, decorator_list)
ClassDefNode(bases, body, decorators, l) ==
    Node("ClassDef", l, <<>>, <<>>, <<>>, bases \o body \o decorators)
ModuleNode(body)         == Node("Module", 0, <<>>, <<>>, <<>>, body)

\* the expression a.b.c for the dotted path <<a, b, c>>, on line l
RECURSIVE Dotted(_, _)
Dotted(p, l) ==
    IF Len(p) = 1 THEN NameNode(p[1], l)
    ELSE AttributeNode(Dotted(SubSeq(p, 1, Len(p) - 1), l), p[Len(p)], l)

(***************************************************************************)
(* Source files.  A statement is a fragment of source text (src: its       *)
(* lines) together with what ast.parse makes of it.  k is one of           *)
(*   "import"  import a as b         (a: module, b: asname or <<>>)        *)
(*   "from"    from a import c as b  (a: module, c: name,  b: asname)      *)
(*   "call"    a.x(...)              (a: the dotted path of the callee)    *)
(*   "attr"    a.x                   (a: the dotted path)                  *)
(*   "def"     @a / def g(x=b): / c  (decorator, default, body paths)      *)
(*   "class"   @a / class C(b): / c  (decorator, base, body paths)         *)
(*   "bad"     text that is no Python                                      *)
(***************************************************************************)
\* source lines
l_import_pandas == <<"i", "m", "p", "o", "r", "t", " ", "p", "a", "n", "d", "a", "s", " ", "a", "s", " ", "p", "d">>
l_import_numpy  == <<"i", "m", "p", "o", "r", "t", " ", "n", "u", "m", "p", "y", " ", "a", "s", " ", "p", "d">>
l_from_os       == <<"f", "r", "o", "m", " ", "o", "s", " ", "i", "m", "p", "o", "r", "t", " ", "p", "a", "t", "h">>
l_read_csv      == <<"p", "d", ".", "r", "e", "a", "d", "_", "c", "s", "v", "(", "s", "r", "c", ")">>
l_DataFrame     == <<"p", "d", ".", "D", "a", "t", "a", "F", "r", "a", "m", "e">>
l_path_join     == <<"p", "a", "t", "h", ".", "j", "o", "i", "n">>
l_deco          == <<"@", "p", "d", ".", "d", "e", "c", "o">>
l_def           == <<"d", "e", "f", " ", "g", "(", "x", "=", "p", "d", ".", "d", "f", "l", "t", ")", ":">>
l_body          == <<" ", " ", " ", " ", "p", "d", ".", "b", "o", "d", "y">>
l_class         == <<"c", "l", "a", "s", "s", " ", "C", "(", "p", "d", ".", "d", "f", "l", "t", ")", ":">>
l_bad           == <<"d", "e", "f", " ", "(", ":">>

Stmt(k, a, b, c, src) == [k |-> k, a |-> a, b |-> b, c |-> c, src |-> src]

ImportPandasAsPd == Stmt("import", <<id_pandas>>, <<id_pd>>, <<>>, <<l_import_pandas>>)
ImportNumpyAsPd  == Stmt("import", <<id_numpy>>, <<id_pd>>, <<>>, <<l_import_numpy>>)
FromOsImportPath == Stmt("from", <<id_os>>, <<>>, <<id_path>>, <<l_from_os>>)
CallReadCsv      == Stmt("call", <<id_pd, id_read_csv>>, <<>>, <<>>, <<l_read_csv>>)
AttrDataFrame    == Stmt("attr", <<id_pd, id_DataFrame>>, <<>>, <<>>, <<l_DataFrame>>)
AttrPathJoin     == Stmt("attr", <<id_path, id_join>>, <<>>, <<>>, <<l_path_join>>)
DecoratedDef     == Stmt("def", <<id_pd, id_deco>>, <<id_pd, id_dflt>>, <<id_pd, id_body>>,
                         <<l_deco, l_def, l_body>>)
DecoratedClass   == Stmt("class", <<id_pd, id_deco>>, <<id_pd, id_dflt>>, <<id_pd, id_body>>,
                         <<l_deco, l_class, l_body>>)
BadSyntax        == Stmt("bad", <<>>, <<>>, <<>>, <<l_bad>>)

Statements == {ImportPandasAsPd, ImportNumpyAsPd, FromOsImportPath, CallReadCsv,
               AttrDataFrame, AttrPathJoin, DecoratedDef, DecoratedClass, BadSyntax}

\* a file of the tree: readable or not, and its statements
SourceFile(readable, stmts) == [readable |-> readable, stmts |-> stmts]

SeqsUpTo(S, n) == UNION {[1..k -> S] : k \in 0..n}

\* the .py files whose size (1 + number of statements) is at most n
SourceFiles(n) ==
    IF n < 1 THEN {}
    ELSE {SourceFile(TRUE, ss) : ss \in SeqsUpTo(Statements, n - 1)}
         \cup {SourceFile(FALSE, <<>>)}

FileSize(f) == 1 + Len(f.stmts)

\* source.splitlines()
RECURSIVE splitlines(_)
splitlines(stmts) ==
    IF stmts = <<>> THEN <<>> ELSE Head(stmts).src \o splitlines(Tail(stmts))

\* the node ast.parse builds for statement s starting on line l
StmtNode(s, l) ==
    CASE s.k = "import" -> ImportNode(s.a, s.b, l)
      [] s.k = "from"   -> ImportFromNode(s.a, s.c, s.b, l)
      [] s.k = "call"   -> ExprNode(CallNode(Dotted(s.a, l), <<>>, l), l)
      [] s.k = "attr"   -> ExprNode(Dotted(s.a, l), l)
      [] s.k = "def"    -> FunctionDefNode(<<Dotted(s.b, l + 1)>>,
                                           <<ExprNode(Dotted(s.c, l + 2), l + 2)>>,
                                           <<Dotted(s.a, l)>>, l + 1)
      [] s.k = "class"  -> ClassDefNode(<<Dotted(s.b, l + 1)>>,
                                        <<ExprNode(Dotted(s.c, l + 2), l + 2)>>,
                                        <<Dotted(s.a, l)>>, l + 1)

RECURSIVE ParseBody(_, _)
ParseBody(stmts, l) ==
    IF stmts = <<>> THEN <<>>
    ELSE <<StmtNode(Head(stmts), l)>> \o ParseBody(Tail(stmts), l + Len(Head(stmts).src))

HasSyntaxError(stmts) == \E i \in 1..Len(stmts) : stmts[i].k = "bad"

\* ast.parse(source): the tree, or SyntaxError
\* str(e) of the two exceptions, each a text without a dot
msg_syntax     == <<<<"i", "n", "v", "a", "l", "i", "d", " ", "s", "y", "n", "t", "a", "x">>>>
msg_permission == <<<<"P", "e", "r", "m", "i", "s", "s", "i", "o", "n", " ", "d", "e", "n", "i", "e", "d">>>>
Ok(v)      == [ok |-> TRUE, val |-> v, msg |-> <<>>]
Raise(msg) == [ok |-> FALSE, val |-> <<>>, msg |-> msg]

Parse(stmts) ==
    IF HasSyntaxError(stmts) THEN Raise(msg_syntax)
    ELSE Ok(ModuleNode(ParseBody(stmts, 1)))

(***************************************************************************)
(* ImportUsageVisitor                                                      *)
(***************************************************************************)
\* the visitor after __init__
NewVisitor(source_lines) ==
    [source_lines |-> source_lines, imports |-> <<>>, usage |-> <<>>]

\* get_full_attribute_name, as the components of the dotted string it returns
RECURSIVE get_full_attribute_name(_)
get_full_attribute_name(node) ==
    IF node.kind = "Name" THEN node.name
    ELSE IF node.kind = "Attribute"
         THEN get_full_attribute_name(node.kids[1]) \o node.name
         ELSE <<EmptyStr>>

\* the node the while loop of visit_Attribute stops at
RECURSIVE AttributeRoot(_)
AttributeRoot(node) ==
    IF node.kind = "Attribute" THEN AttributeRoot(node.kids[1]) ELSE node

ImportEntry(module, alias, node, v) ==
    [module |-> module, alias |-> alias, lineno |-> node.lineno,
     code |-> v.source_lines[node.lineno]]

UsageEntry(full_name, node, v) ==
    [symbol |-> full_name, lineno |-> node.lineno,
     code |-> v.source_lines[node.lineno]]

\* alias.asname or alias.name
AliasOf(node) == IF node.asname # <<>> THEN node.asname ELSE node.name

visit_Import(node, v) ==
    [v EXCEPT !.imports = Append(@, ImportEntry(node.name, AliasOf(node), node, v))]

\* f"{module}.{alias.name}"; node.module is None for "from . import x"
visit_ImportFrom(node, v) ==
    LET module == IF node.module = <<>> THEN <<None>> ELSE node.module
    IN  [v EXCEPT !.imports =
            Append(@, ImportEntry(module \o node.name, AliasOf(node), node, v))]

\* a visit_Call that leaves the call to visit_Attribute alone
visit_Call_Silent(node, v) == v

visit_Call(node, v) ==
    LET full_name == get_full_attribute_name(node.kids[1])
    IN  IF full_name # <<EmptyStr>>
        THEN [v EXCEPT !.usage = Append(@, UsageEntry(full_name, node, v))]
        ELSE v

visit_Attribute(node, v) ==
    IF AttributeRoot(node).kind = "Name"
    THEN [v EXCEPT !.usage = Append(@, UsageEntry(get_full_attribute_name(node), node, v))]
    ELSE v

\* NodeVisitor.visit and generic_visit: the node's own visit_ method, then
\* every child in _fields order
RECURSIVE Visit(_, _), VisitAll(_, _)
Visit(node, v) ==
    LET own == CASE node.kind = "Import"     -> visit_Import(node, v)
                 [] node.kind = "ImportFrom" -> visit_ImportFrom(node, v)
                 [] node.kind = "Call"       -> visit_Call(node, v)
                 [] node.kind = "Attribute"  -> visit_Attribute(node, v)
                 [] OTHER                    -> v
    IN  VisitAll(node.kids, own)
VisitAll(kids, v) ==
    IF kids = <<>> THEN v ELSE VisitAll(Tail(kids), Visit(Head(kids), v))

(***************************************************************************)
(* analyze_repo                                                            *)
(***************************************************************************)
\* a Python dict as the sequence of its items in insertion order
DictKeys(d) == {d[i].k : i \in 1..Len(d)}
DictGet(d, k) == (CHOOSE i \in 1..Len(d) : d[i].k = k)
DictPut(d, k, val) ==
    IF k \in DictKeys(d)
    THEN [i \in 1..Len(d) |-> IF d[i].k = k THEN [k |-> k, v |-> val] ELSE d[i]]
    ELSE Append(d, [k |-> k, v |-> val])

\* import_map = {imp['alias']: imp for imp in visitor.imports}
RECURSIVE ImportMapFrom(_, _)
ImportMapFrom(imports, d) ==
    IF imports = <<>> THEN d
    ELSE ImportMapFrom(Tail(imports), DictPut(d, Head(imports).alias, Head(imports)))
import_map(v) == ImportMapFrom(v.imports, <<>>)

\* the usages the loop at lines 88-95 files under alias
RECURSIVE UsagesOf(_, _)
UsagesOf(usage, alias) ==
    IF usage = <<>> THEN <<>>
    ELSE LET u == Head(usage)
             root_name == <<Head(u.symbol)>>
         IN  (IF root_name = alias THEN <<u>> ELSE <<>>) \o UsagesOf(Tail(usage), alias)

ImportRecord(file_path, alias, imp) ==
    [file |-> file_path, type |-> "import", symbol |-> imp.module, alias |-> alias,
     lineno |-> imp.lineno, code |-> imp.code]

UsageRecord(file_path, alias, u) ==
    [file |-> file_path, type |-> "usage", symbol |-> u.symbol, alias |-> alias,
     lineno |-> u.lineno, code |-> u.code]

ErrorRecord(file_path, msg) ==
    [file |-> file_path, type |-> "error", symbol |-> msg, alias |-> <<EmptyStr>>,
     lineno |-> -1, code |-> EmptyStr]

RECURSIVE UsageRecords(_, _, _)
UsageRecords(file_path, alias, us) ==
    IF us = <<>> THEN <<>>
    ELSE <<UsageRecord(file_path, alias, Head(us))>> \o UsageRecords(file_path, alias, Tail(us))

\* an emission that lists the imports of the file first and the usages of
\* every alias after them
EmitRecords_ImportsFirst(file_path, imap, usage) ==
    LET RECURSIVE Imports(_)
        Imports(d) == IF d = <<>> THEN <<>>
                      ELSE <<ImportRecord(file_path, Head(d).k, Head(d).v)>> \o Imports(Tail(d))
        RECURSIVE Usages(_)
        Usages(d) == IF d = <<>> THEN <<>>
                     ELSE UsageRecords(file_path, Head(d).k, UsagesOf(usage, Head(d).k))
                          \o Usages(Tail(d))
    IN  Imports(imap) \o Usages(imap)

\* the emission loop, lines 97-114
RECURSIVE EmitRecords(_, _, _)
EmitRecords(file_path, imap, usage) ==
    IF imap = <<>> THEN <<>>
    ELSE LET alias == Head(imap).k
             imp   == Head(imap).v
         IN  <<ImportRecord(file_path, alias, imp)>>
             \o UsageRecords(file_path, alias, UsagesOf(usage, alias))
             \o EmitRecords(file_path, Tail(imap), usage)

\* a per-file step that skips a failing file without a record
FileRecords_SkipFailed(file_path, f) ==
    IF ~f.readable \/ ~Parse(f.stmts).ok THEN <<>>
    ELSE LET v == Visit(Parse(f.stmts).val, NewVisitor(splitlines(f.stmts)))
         IN  EmitRecords(file_path, import_map(v), v.usage)

\* the body of the try block for one file: what it appends to results
FileRecords(file_path, f) ==
    IF ~f.readable THEN <<ErrorRecord(file_path, msg_permission)>>
    ELSE LET tree == Parse(f.stmts)
         IN  IF ~tree.ok THEN <<ErrorRecord(file_path, tree.msg)>>
             ELSE LET v == Visit(tree.val, NewVisitor(splitlines(f.stmts)))
                  IN  EmitRecords(file_path, import_map(v), v.usage)

(***************************************************************************)
(* Strings                                                                 *)
(***************************************************************************)
SpaceChars == {" ", "\t", "\n", "\r"}
IsSpace(c) == c \in SpaceChars

RECURSIVE lstrip(_)
lstrip(s) == IF s # <<>> /\ IsSpace(Head(s)) THEN lstrip(Tail(s)) ELSE s
RECURSIVE rstrip(_)
rstrip(s) ==
    IF s # <<>> /\ IsSpace(s[Len(s)]) THEN rstrip(SubSeq(s, 1, Len(s) - 1)) ELSE s
strip(s) == lstrip(rstrip(s))

UpperChars == <<"A", "B", "C", "D", "E", "F", "G", "H", "I", "J", "K", "L", "M",
                "N", "O", "P", "Q", "R", "S", "T", "U", "V", "W", "X", "Y", "Z">>
LowerChars == <<"a", "b", "c", "d", "e", "f", "g", "h", "i", "j", "k", "l", "m",
                "n", "o", "p", "q", "r", "s", "t", "u", "v", "w", "x", "y", "z">>
LowerTable == [c \in {UpperChars[i] : i \in 1..Len(UpperChars)} |->
                 LowerChars[CHOOSE i \in 1..Len(UpperChars) : UpperChars[i] = c]]
LowerChar(c) == IF c \in DOMAIN LowerTable THEN LowerTable[c] ELSE c
lower(s) == [i \in 1..Len(s) |-> LowerChar(s[i])]

(***************************************************************************)
(* The dependency CSV as the report stage reads it                         *)
(***************************************************************************)
v_2_0_1   == <<"=", "=", "2", ".", "0", ".", "1">>
v_1_0RC1  == <<"=", "=", "1", ".", "0", "R", "C", "1">>
inst_2_1  == <<"2", ".", "1", ".", "4">>
id_flask  == <<"f", "l", "a", "s", "k">>
id_Flask  == <<"F", "l", "a", "s", "k">>
id_Pandas == <<"P", "a", "n", "d", "a", "s">>

CsvRow(path, package, version) == [path |-> path, package |-> package, version |-> version]

\* importlib.metadata.version(package): the installed distributions
Installed == {[name |-> id_pandas, version |-> inst_2_1]}
IsInstalled(package) == \E d \in Installed : d.name = package
InstalledVersion(package) == (CHOOSE d \in Installed : d.name = package).version

\* pandas.read_csv of one cell followed by str(): an empty cell is NaN
CellStr(cell) == IF cell = EmptyStr THEN s_nan ELSE cell

\* one iteration of the loop of load_dependency_versions_with_resolution
ResolveRow(resolved, row) ==
    LET package == row.package
        version == lower(strip(CellStr(row.version)))
    IN  IF version \in {s_latest, s_python, EmptyStr}
        THEN IF IsInstalled(package)
             THEN DictPut(resolved, package, InstalledVersion(package))
             ELSE DictPut(resolved, package, s_latest)
        ELSE DictPut(resolved, package, version)

RECURSIVE ResolveRows(_, _)
ResolveRows(resolved, rows) ==
    IF rows = <<>> THEN resolved
    ELSE ResolveRows(ResolveRow(resolved, Head(rows)), Tail(rows))

load_dependency_versions_with_resolution(rows) == ResolveRows(<<>>, rows)

\* dependency_versions.get(package, "unknown")
VersionOf(dependency_versions, package) ==
    IF package \in DictKeys(dependency_versions)
    THEN dependency_versions[DictGet(dependency_versions, package)].v
    ELSE s_unknown

(***************************************************************************)
(* generate_pdf_report: the entries the while loop renders                 *)
(***************************************************************************)
\* the index j at which the inner while loop of lines 179-191 stops
RECURSIVE UsageRunEnd(_, _, _)
UsageRunEnd(res, j, alias) ==
    IF j <= Len(res) /\ res[j].type = "usage" /\ res[j].alias = alias
    THEN UsageRunEnd(res, j + 1, alias) ELSE j

RECURSIVE RenderFrom(_, _, _, _)
RenderFrom(res, i, count, dependency_versions) ==
    IF i > Len(res) THEN <<>>
    ELSE IF res[i].type = "import"
         THEN LET item == res[i]
                  package == Head(item.symbol)
                  j == UsageRunEnd(res, i + 1, item.alias)
              IN  <<[count |-> count, symbol |-> item.symbol,
                     version |-> VersionOf(dependency_versions, package),
                     file |-> item.file, lineno |-> item.lineno, code |-> item.code,
                     usages |-> [k \in 1..(j - i - 1) |->
                                   [lineno |-> res[i + k].lineno, code |-> res[i + k].code]]]>>
                  \o RenderFrom(res, j, count + 1, dependency_versions)
         ELSE RenderFrom(res, i + 1, count, dependency_versions)

generate_pdf_report(res, rows) ==
    RenderFrom(res, 1, 1, load_dependency_versions_with_resolution(rows))

(***************************************************************************)
(* generate_ast_usage_pdf, step by step.  The tree is read as the walk     *)
(* goes: every step of the walk yields the next .py file of the tree.      *)
(***************************************************************************)
NoFile == [path |-> 0, file |-> SourceFile(FALSE, <<>>), before |-> <<>>]

CsvInputs == {<<>>,
              <<CsvRow(1, id_pandas, s_latest)>>,
              <<CsvRow(1, id_flask, v_2_0_1), CsvRow(2, id_flask, s_latest),
                CsvRow(1, id_Pandas, v_2_0_1)>>}

err_no_path   == "Error generating PDF: Project path does not exist"
err_no_result == "Error generating PDF: No Python files or analysis results found in the project path."
err_no_csv    == "Error generating PDF: No such file or directory: all_dependencies_with_paths.csv"
err_write     == "Error generating PDF: cannot write ast_report.pdf"
ok_report     == "AST usage report saved to: ast_report.pdf"

CrewIdle ==
    /\ crewPc = "idle"
    /\ repoUrlSet = FALSE
    /\ tasks = <<>>
    /\ taskIdx = 1
    /\ executed = <<>>

InferIdle ==
    /\ infPc = "idle"
    /\ sourceFile = <<>>
    /\ lineIdx = 1
    /\ found = {}

SplitIdle ==
    /\ splPc = "idle"
    /\ specifier = <<>>
    /\ splitResult = <<>>

ResolveIdle ==
    /\ resPc = "idle"
    /\ resolved_versions = <<>>
    /\ rowIdx = 1

ExtractIdle ==
    /\ extPc = "idle"
    /\ files = <<>>
    /\ tomlAcceptsText = FALSE
    /\ all_dependencies = <<>>
    /\ mIdx = 1
    /\ lastExtract = [idx |-> 0, failed |-> FALSE, before |-> <<>>]
    /\ extOut = "none"
    /\ run = 1
    /\ firstCsv = <<>>

InitScan ==
    /\ ExtractIdle
    /\ InferIdle
    /\ CrewIdle
    /\ mainSpecIsNone = FALSE
    /\ ResolveIdle
    /\ SplitIdle
    /\ scanPc = "start"
    /\ projectPath \in {"repo", "missing", ""}
    /\ csvExists \in (IF ProjectExists THEN BOOLEAN ELSE {FALSE})
    /\ csvRows \in (IF csvExists THEN CsvInputs ELSE {<<>>})
    /\ results = <<>>
    /\ nScanned = 0
    /\ sizeUsed = 0
    /\ lastFile = NoFile
    /\ toolOut = "none"
    /\ pdfWritten = FALSE
    /\ pdf = <<>>

\* lines 204-207: the existence check
ToolStart ==
    /\ scanPc = "start"
    /\ IF ProjectExists
       THEN /\ scanPc' = "walk"
            /\ toolOut' = toolOut
       ELSE /\ scanPc' = "done"
            /\ toolOut' = err_no_path
    /\ UNCHANGED <<projVars, extVars, resVars, splitVars, inferVars, crewVars, results, nScanned, sizeUsed, lastFile, pdfWritten, pdf>>

\* one iteration of analyze_repo's loop over the .py files (lines 68-123)
ScanFile ==
    /\ scanPc = "walk"
    /\ \E f \in SourceFiles(MaxTreeSize - sizeUsed) :
          /\ results' = results \o FileRecords(nScanned + 1, f)
          /\ lastFile' = [path |-> nScanned + 1, file |-> f, before |-> results]
          /\ sizeUsed' = sizeUsed + FileSize(f)
    /\ nScanned' = nScanned + 1
    /\ UNCHANGED <<projVars, extVars, resVars, splitVars, inferVars, crewVars, scanPc, toolOut, pdfWritten, pdf>>

\* the walk is exhausted: analyze_repo returns, lines 209-210
WalkDone ==
    /\ scanPc = "walk"
    /\ IF results = <<>>
       THEN /\ scanPc' = "done"
            /\ toolOut' = err_no_result
       ELSE /\ scanPc' = "report"
            /\ toolOut' = toolOut
    /\ UNCHANGED <<projVars, extVars, resVars, splitVars, inferVars, crewVars, results, nScanned, sizeUsed, lastFile, pdfWritten, pdf>>

\* generate_pdf_report and the return, lines 211-216
Report ==
    /\ scanPc = "report"
    /\ scanPc' = "done"
    /\ IF csvExists
       THEN /\ pdf' = generate_pdf_report(results, csvRows)
            /\ pdfWritten' = TRUE
            /\ toolOut' = ok_report
       ELSE /\ toolOut' = err_no_csv
            /\ UNCHANGED <<pdf, pdfWritten>>
    /\ UNCHANGED <<projVars, extVars, resVars, splitVars, inferVars, crewVars, results, nScanned, sizeUsed, lastFile>>

\* pdf.output raises (the directory is not writable): lines 198, 217-220
ReportWriteFails ==
    /\ scanPc = "report"
    /\ csvExists
    /\ scanPc' = "done"
    /\ toolOut' = err_write
    /\ UNCHANGED <<projVars, extVars, resVars, splitVars, inferVars, crewVars, results, nScanned, sizeUsed, lastFile, pdfWritten, pdf>>

NextScan == ToolStart \/ ScanFile \/ WalkDone \/ Report \/ ReportWriteFails

SpecScan == InitScan /\ [][NextScan]_vars

(***************************************************************************)
(* Claims about the scan                                                   *)
(***************************************************************************)
\* the records the file handled last added to results
LastRecords == SubSeq(results, Len(lastFile.before) + 1, Len(results))
Scanned == nScanned > 0
IsImportStmt(st) == st.k \in {"import", "from"}
FileFails(f) == ~f.readable \/ HasSyntaxError(f.stmts)

\* C1: in a file's records every Usage record follows, without a gap, the
\* Import record of its own alias or another Usage record of that alias, and
\* the line numbers inside such a run never decrease.
C1_UsageRunsAscending ==
    Scanned =>
        LET rs == LastRecords
        IN  \A i \in 1..Len(rs) :
               rs[i].type = "usage" =>
                  /\ i > 1
                  /\ rs[i - 1].type \in {"import", "usage"}
                  /\ rs[i - 1].alias = rs[i].alias
                  /\ rs[i - 1].type = "usage" => rs[i - 1].lineno <= rs[i].lineno

\* C2: a file of N import statements and nothing else yields exactly N Import
\* records, no Usage record, in declaration line order.
C2_NImportsGiveNRecords ==
    (Scanned /\ lastFile.file.readable
             /\ \A i \in 1..Len(lastFile.file.stmts) : IsImportStmt(lastFile.file.stmts[i]))
    => LET rs == LastRecords
       IN  /\ Len(rs) = Len(lastFile.file.stmts)
           /\ \A i \in 1..Len(rs) : rs[i].type = "import" /\ rs[i].lineno = i

\* the file of C3: import pandas as pd / pd.read_csv(...) / pd.DataFrame
PandasFile == SourceFile(TRUE, <<ImportPandasAsPd, CallReadCsv, AttrDataFrame>>)
PandasImport(path) ==
    [file |-> path, type |-> "import", symbol |-> <<id_pandas>>, alias |-> <<id_pd>>,
     lineno |-> 1, code |-> l_import_pandas]
PandasUsage(path, attr, l, code) ==
    [file |-> path, type |-> "usage", symbol |-> <<id_pd, attr>>, alias |-> <<id_pd>>,
     lineno |-> l, code |-> code]

\* C3 as stated: the pandas file yields the Import record followed by exactly
\* two Usage records, pd.read_csv (line 2) and pd.DataFrame (line 3).
C3_TwoUsages ==
    (Scanned /\ lastFile.file = PandasFile) =>
        LastRecords = <<PandasImport(lastFile.path),
                        PandasUsage(lastFile.path, id_read_csv, 2, l_read_csv),
                        PandasUsage(lastFile.path, id_DataFrame, 3, l_DataFrame)>>

\* C3 amended: the call pd.read_csv(...) is recorded twice, once by visit_Call
\* and once by visit_Attribute, so three Usage records follow the Import
\* record: pd.read_csv (line 2) twice, then pd.DataFrame (line 3).
C3_ThreeUsages ==
    (Scanned /\ lastFile.file = PandasFile) =>
        LastRecords = <<PandasImport(lastFile.path),
                        PandasUsage(lastFile.path, id_read_csv, 2, l_read_csv),
                        PandasUsage(lastFile.path, id_read_csv, 2, l_read_csv),
                        PandasUsage(lastFile.path, id_DataFrame, 3, l_DataFrame)>>

C3_Witness == Scanned /\ lastFile.file = PandasFile /\ Len(LastRecords) = 4

\* C4: a step of the scan over a file whose read or parse fails appends
\* exactly one record (kind Error, symbol the message, empty alias, line -1)
\* to the records emitted so far, which it leaves as they were, and the scan
\* goes on; a step over any file leaves the earlier records as they were.
C4_ErrorIsolation ==
    [][nScanned' = nScanned + 1 =>
          LET f == lastFile'.file
          IN  /\ Len(results') >= Len(results)
              /\ SubSeq(results', 1, Len(results)) = results
              /\ \A i \in (Len(results) + 1)..Len(results') :
                    results'[i].file = lastFile'.path
              /\ FileFails(f) =>
                    /\ results' = Append(results,
                          [file |-> lastFile'.path, type |-> "error",
                           symbol |-> IF f.readable THEN msg_syntax ELSE msg_permission,
                           alias |-> <<EmptyStr>>, lineno |-> -1, code |-> EmptyStr])
                    /\ scanPc' = "walk"
              /\ ~FileFails(f) =>
                    \A i \in (Len(results) + 1)..Len(results') : results'[i].type # "error"]_vars

\* a file with records, then a failing file, then another file with records
C4_Witness ==
    /\ Len(results) >= 3
    /\ \E i \in 2..(Len(results) - 1) :
          /\ results[i].type = "error"
          /\ results[i - 1].type # "error" /\ results[i - 1].file # results[i].file
          /\ results[i + 1].type = "import" /\ results[i + 1].file # results[i].file

(***************************************************************************)
(* Regular expressions of dependency_tools.py, character by character      *)
(***************************************************************************)
Chars(s) == {s[i] : i \in 1..Len(s)}
Letters == Chars(LowerChars) \cup Chars(UpperChars)
Digits  == {"0", "1", "2", "3", "4", "5", "6", "7", "8", "9"}
WordChars == Letters \cup Digits \cup {"_"}
IsWordChar(c)    == c \in WordChars                       \* \w
IsNameChar(c)    == IsWordChar(c) \/ c \in {"-", "."}       \* [\w\-\.]
IsVersionChar(c) == IsWordChar(c) \/ c \in {".", "*"}       \* [\d\w\.\*]
IsModuleChar(c)  == IsWordChar(c) \/ c = "."                \* [\w\d_\.]

\* the index of the first c in s, 0 when there is none
IndexOf(s, c) ==
    IF c \in Chars(s) THEN CHOOSE i \in 1..Len(s) : s[i] = c /\ \A k \in 1..(i - 1) : s[k] # c
    ELSE 0

\* where the longest run of characters of one class that starts at i ends
\* (the index after its last character)
RECURSIVE SpaceRunEnd(_, _)
SpaceRunEnd(s, i) ==
    IF i <= Len(s) /\ IsSpace(s[i]) THEN SpaceRunEnd(s, i + 1) ELSE i
RECURSIVE NameRunEnd(_, _)
NameRunEnd(s, i) ==
    IF i <= Len(s) /\ IsNameChar(s[i]) THEN NameRunEnd(s, i + 1) ELSE i
RECURSIVE VersionRunEnd(_, _)
VersionRunEnd(s, i) ==
    IF i <= Len(s) /\ IsVersionChar(s[i]) THEN VersionRunEnd(s, i + 1) ELSE i
RECURSIVE ModuleRunEnd(_, _)
ModuleRunEnd(s, i) ==
    IF i <= Len(s) /\ IsModuleChar(s[i]) THEN ModuleRunEnd(s, i + 1) ELSE i

StartsWith(s, i, lit) ==
    /\ i + Len(lit) - 1 <= Len(s)
    /\ SubSeq(s, i, i + Len(lit) - 1) = lit

From(s, i) == SubSeq(s, i, Len(s))

\* an entry of a manifest that is no string (a number, a table, null)
NonString == <<"<not a str>">>

\* (==|>=|<=|>|<|~=) in the order the alternatives are tried
Operators == <<<<"=", "=">>, <<">", "=">>, <<"<", "=">>, <<">">>, <<"<">>, <<"~", "=">>>>
OperatorAt(s, i) ==
    IF \E k \in 1..Len(Operators) : StartsWith(s, i, Operators[k])
    THEN Operators[CHOOSE k \in 1..Len(Operators) :
                      /\ StartsWith(s, i, Operators[k])
                      /\ \A m \in 1..(k - 1) : ~StartsWith(s, i, Operators[m])]
    ELSE EmptyStr

\* (?:\[[^\]]+\])? at i: the index after the extras, i when there are none
ExtrasEnd(s, i) ==
    IF i <= Len(s) /\ s[i] = "[" /\ IndexOf(From(s, i + 1), "]") >= 2
    THEN i + IndexOf(From(s, i + 1), "]") + 1
    ELSE i

Split(package, version) == [ok |-> TRUE, package |-> package, version |-> version]
SplitRaises == [ok |-> FALSE, package |-> EmptyStr, version |-> EmptyStr]

\* split_dependency(dep); it raises AttributeError on a dep that is no string
split_dependency(dep) ==
    IF dep = NonString THEN SplitRaises
    ELSE
    LET d1 == strip(dep)
        d  == IF ";" \in Chars(d1) THEN strip(SubSeq(d1, 1, IndexOf(d1, ";") - 1)) ELSE d1
    IN  IF "@" \in Chars(d)
        THEN Split(strip(SubSeq(d, 1, IndexOf(d, "@") - 1)),
                   <<"@", " ">> \o strip(From(d, IndexOf(d, "@") + 1)))
        ELSE LET e1 == NameRunEnd(d, 1) IN
             IF e1 = 1 THEN Split(d, s_latest)
             ELSE LET e2 == ExtrasEnd(d, e1)
                      e3 == SpaceRunEnd(d, e2)
                      op == OperatorAt(d, e3)
                      e4 == SpaceRunEnd(d, e3 + Len(op))
                      e5 == VersionRunEnd(d, e4)
                      version == strip(op \o SubSeq(d, e4, e5 - 1))
                  IN  Split(SubSeq(d, 1, e1 - 1),
                            IF version = EmptyStr THEN s_latest ELSE version)

kw_import == <<"i", "m", "p", "o", "r", "t">>
kw_from   == <<"f", "r", "o", "m">>

\* pattern.match(line) of extract_python_file_dependencies and
\* match.group(1).split(".")[0]: [matched, module]
ImportedModule(line) ==
    LET i1 == SpaceRunEnd(line, 1)
        kw == IF StartsWith(line, i1, kw_import) THEN kw_import
              ELSE IF StartsWith(line, i1, kw_from) THEN kw_from ELSE EmptyStr
        i2 == i1 + Len(kw)
        i3 == SpaceRunEnd(line, i2)
        i4 == ModuleRunEnd(line, i3)
        group == SubSeq(line, i3, i4 - 1)
    IN  IF kw # EmptyStr /\ i3 > i2 /\ i4 > i3
        THEN [matched |-> TRUE,
              module |-> IF "." \in Chars(group)
                         THEN SubSeq(group, 1, IndexOf(group, ".") - 1) ELSE group]
        ELSE [matched |-> FALSE, module |-> EmptyStr]

\* sys.builtin_module_names, and the modules importlib.util.find_spec locates
id_sys        == <<"s", "y", "s">>
id_setuptools == <<"s", "e", "t", "u", "p", "t", "o", "o", "l", "s">>
id_main       == <<"_", "_", "m", "a", "i", "n", "_", "_">>
BuiltinModuleNames == {id_sys}
Locatable == {id_sys, id_os, id_pandas, id_numpy, id_setuptools, id_main}
\* importlib.util.find_spec(name) raises ValueError for a module of
\* sys.modules whose __spec__ is None: __main__ in a script run
FindSpecRaises(module_name, specIsNone) == module_name = id_main /\ specIsNone
is_builtin_module(module_name) ==
    module_name \in BuiltinModuleNames \/ module_name \notin Locatable

(***************************************************************************)
(* The files of a project tree, as the manifest extraction reads them.     *)
(*   name   the file name                                                  *)
(*   lines  its text, line by line                                         *)
(*   badAt  0 when all of it can be read; k > 0 when reading it raises     *)
(*          (UnicodeDecodeError, OSError) once lines 1..k-1 have been read *)
(*   doc    what the format's parser (tomli, yaml, ast) makes of it:       *)
(*          [shape, items]                                                 *)
(***************************************************************************)
TreeFile(name, lines, badAt, doc) ==
    [name |-> name, lines |-> lines, badAt |-> badAt, doc |-> doc]
Doc(shape, items) == [shape |-> shape, items |-> items]
NoDoc == Doc("none", <<>>)
\* an entry of a parsed document: a string s, a table with a name and a
\* version, or a table holding a pip list
Item(kind, s, name, version, pip) ==
    [kind |-> kind, s |-> s, name |-> name, version |-> version, pip |-> pip]
StrItem(s)            == Item("str", s, EmptyStr, EmptyStr, <<>>)
OtherItem             == Item("other", NonString, EmptyStr, EmptyStr, <<>>)
TableItem(name, v)    == Item("table", EmptyStr, name, v, <<>>)
NamedStr(name, v)     == Item("namedstr", EmptyStr, name, v, <<>>)
NamedOther(name)      == Item("namedother", EmptyStr, name, EmptyStr, <<>>)
PipItem(pip)          == Item("pip", EmptyStr, EmptyStr, EmptyStr, pip)
PipNoneItem           == Item("pipnone", EmptyStr, EmptyStr, EmptyStr, <<>>)

n_pyproject    == <<"p", "y", "p", "r", "o", "j", "e", "c", "t", ".", "t", "o", "m", "l">>
n_poetry_lock  == <<"p", "o", "e", "t", "r", "y", ".", "l", "o", "c", "k">>
n_Pipfile      == <<"P", "i", "p", "f", "i", "l", "e">>
n_environment  == <<"e", "n", "v", "i", "r", "o", "n", "m", "e", "n", "t", ".", "y", "m", "l">>
n_requirements == <<"r", "e", "q", "u", "i", "r", "e", "m", "e", "n", "t", "s", ".", "t", "x", "t">>
n_Requirements == <<"R", "e", "q", "u", "i", "r", "e", "m", "e", "n", "t", "s", ".", "T", "X", "T">>
n_setup_py     == <<"s", "e", "t", "u", "p", ".", "p", "y">>
n_app_py       == <<"a", "p", "p", ".", "p", "y">>
suffix_py      == <<".", "p", "y">>

s_flask_pin    == <<"f", "l", "a", "s", "k", "=", "=", "2", ".", "0", ".", "1">>
s_requests     == <<"r", "e", "q", "u", "e", "s", "t", "s">>
s_numpy        == <<"n", "u", "m", "p", "y">>
s_python_38    == <<"p", "y", "t", "h", "o", "n", "=", "3", ".", "8">>
s_flask_ge     == <<"f", "l", "a", "s", "k", ">", "=", "1", ".", "0">>
s_comment      == <<"#", " ", "c", "o", "m", "m", "e", "n", "t">>
s_caret        == <<"^", "2", ".", "0">>
s_unspecified  == <<"u", "n", "s", "p", "e", "c", "i", "f", "i", "e", "d">>
v_2_1_4        == <<"2", ".", "1", ".", "4">>
l_import_sys   == <<"i", "m", "p", "o", "r", "t", " ", "s", "y", "s">>
l_import_flask == <<"i", "m", "p", "o", "r", "t", " ", "f", "l", "a", "s", "k">>
l_from_dot     == <<"f", "r", "o", "m", " ", ".", " ", "i", "m", "p", "o", "r", "t", " ", "x">>
l_from_setuptools == <<"f", "r", "o", "m", " ", "s", "e", "t", "u", "p", "t", "o", "o", "l", "s", " ", "i", "m", "p", "o", "r", "t", " ", "s", "e", "t", "u", "p">>
l_setup_call   == <<"s", "e", "t", "u", "p", "(", "i", "n", "s", "t", "a", "l", "l", "_", "r", "e", "q", "u", "i", "r", "e", "s", "=", "[", ".", ".", ".", "]", ")">>

\* dependency_files, in the order the dict is iterated
ManifestNames == <<n_pyproject, n_poetry_lock, n_Pipfile, n_environment,
                   n_requirements, n_setup_py>>

PyprojectPep621  == TreeFile(n_pyproject, <<>>, 0,
                             Doc("project", <<StrItem(s_flask_pin), StrItem(s_requests)>>))
PyprojectBadItem == TreeFile(n_pyproject, <<>>, 0,
                             Doc("project", <<StrItem(s_requests), OtherItem>>))
PyprojectPoetry  == TreeFile(n_pyproject, <<>>, 0,
                             Doc("poetry", <<NamedStr(id_flask, s_caret), NamedOther(id_numpy)>>))
PoetryLockMixed  == TreeFile(n_poetry_lock, <<>>, 0,
                             Doc("package", <<TableItem(id_pandas, v_2_1_4), OtherItem>>))
PipfileAny       == TreeFile(n_Pipfile, <<>>, 0,
                             Doc("pipfile", <<NamedStr(id_flask, v_2_0_1)>>))
CondaPython      == TreeFile(n_environment, <<>>, 0,
                             Doc("map", <<StrItem(s_numpy), StrItem(s_python_38),
                                          PipItem(<<s_flask_pin>>)>>))
CondaPipNone     == TreeFile(n_environment, <<>>, 0,
                             Doc("map", <<StrItem(s_numpy), PipNoneItem>>))
RequirementsOk   == TreeFile(n_Requirements,
                             <<s_flask_pin, s_comment, EmptyStr, s_requests>>, 0, NoDoc)
RequirementsCut  == TreeFile(n_requirements,
                             <<s_flask_pin, s_requests>>, 2, NoDoc)
SetupPyOk        == TreeFile(n_setup_py, <<l_from_setuptools, l_setup_call>>, 0,
                             Doc("setup", <<StrItem(s_flask_ge), OtherItem>>))
SetupPyBad       == TreeFile(n_setup_py, <<l_from_setuptools, l_bad>>, 0,
                             Doc("invalid", <<>>))
AppPy            == TreeFile(n_app_py,
                             <<l_import_sys, l_from_dot, l_import_flask, l_import_pandas>>,
                             0, NoDoc)

TreeFiles == {PyprojectPep621, PyprojectBadItem, PyprojectPoetry, PoetryLockMixed,
              PipfileAny, CondaPython, CondaPipNone, RequirementsOk, RequirementsCut,
              SetupPyOk, SetupPyBad, AppPy}

(***************************************************************************)
(* The extractors.  Each returns [rows, failed]: the records it hands to   *)
(* extract_project_dependencies and whether reading or parsing the file    *)
(* raised.  A record is (path, package, version); phase, entry and sub     *)
(* only remember where in the file it comes from (the loop of the          *)
(* extractor, the entry's position, the position inside a pip list).       *)
(***************************************************************************)
Dep(path, package, version, phase, entry, sub) ==
    [path |-> path, package |-> package, version |-> version,
     phase |-> phase, entry |-> entry, sub |-> sub]
Extracted(rows, failed) == [rows |-> rows, failed |-> failed]

\* split every specifier of items[i..]; raises at the first one that is no string
RECURSIVE SplitItems(_, _, _, _)
SplitItems(path, items, i, acc) ==
    IF i > Len(items) THEN Extracted(acc, FALSE)
    ELSE LET sp == split_dependency(items[i].s)
         IN  IF ~sp.ok THEN Extracted(acc, TRUE)
             ELSE SplitItems(path, items, i + 1,
                             Append(acc, Dep(path, sp.package, sp.version, 2, i, 0)))

\* extract_pyproject_dependencies: no try of its own, so what it raises
\* reaches the caller and the records built so far are lost
extract_pyproject_dependencies(path, f, textOk) ==
    IF ~textOk \/ f.badAt # 0 \/ f.doc.shape = "invalid"
    THEN Extracted(<<>>, TRUE)
    ELSE IF f.doc.shape \in {"project", "toplist"}
         THEN LET r == SplitItems(path, f.doc.items, 1, <<>>)
              IN  IF r.failed THEN Extracted(<<>>, TRUE) ELSE r
         ELSE IF f.doc.shape = "poetry"
              THEN Extracted([i \in 1..Len(f.doc.items) |->
                                LET it == f.doc.items[i]
                                IN  Dep(path, it.name,
                                        IF it.kind \in {"namedstr", "table"} THEN it.version
                                        ELSE s_unspecified, 2, i, 0)], FALSE)
              ELSE Extracted(<<>>, FALSE)

\* extract_poetry_lock_dependencies: its own try keeps what was appended
RECURSIVE LockPackages(_, _, _, _)
LockPackages(path, items, i, acc) ==
    IF i > Len(items) THEN Extracted(acc, FALSE)
    ELSE IF items[i].kind # "table" THEN Extracted(acc, TRUE)
         ELSE LockPackages(path, items, i + 1,
                           Append(acc, Dep(path, items[i].name, items[i].version, 2, i, 0)))

extract_poetry_lock_dependencies(path, f, textOk) ==
    IF ~textOk \/ f.badAt # 0 \/ f.doc.shape = "invalid"
    THEN Extracted(<<>>, TRUE)
    ELSE LockPackages(path, f.doc.items, 1, <<>>)

\* extract_pipfile_dependencies: toml.load is handed the path, a str, and
\* raises AttributeError before anything is read
extract_pipfile_dependencies(path, f) == Extracted(<<>>, TRUE)

\* get_conda_dependencies, first loop: the entries that start with "python"
RECURSIVE CondaPythonRows(_, _, _)
CondaPythonRows(path, items, i) ==
    IF i > Len(items) THEN <<>>
    ELSE (IF items[i].kind = "str" /\ StartsWith(items[i].s, 1, s_python)
          THEN <<Dep(path, s_python, split_dependency(items[i].s).version, 1, i, 0)>>
          ELSE <<>>) \o CondaPythonRows(path, items, i + 1)

RECURSIVE PipRows(_, _, _, _, _)
PipRows(path, pip, entry, k, acc) ==
    IF k > Len(pip) THEN Extracted(acc, FALSE)
    ELSE LET sp == split_dependency(pip[k])
         IN  IF ~sp.ok THEN Extracted(acc, TRUE)
             ELSE PipRows(path, pip, entry, k + 1,
                          Append(acc, Dep(path, sp.package, sp.version, 2, entry, k)))

\* second loop: every entry, the pip sub-lists included
RECURSIVE CondaRows(_, _, _, _)
CondaRows(path, items, i, acc) ==
    IF i > Len(items) THEN Extracted(acc, FALSE)
    ELSE LET it == items[i] IN
         IF it.kind = "str"
         THEN LET sp == split_dependency(it.s)
              IN  CondaRows(path, items, i + 1,
                            Append(acc, Dep(path, sp.package, sp.version, 2, i, 0)))
         ELSE IF it.kind = "pip"
              THEN LET r == PipRows(path, it.pip, i, 1, acc)
                   IN  IF r.failed THEN r ELSE CondaRows(path, items, i + 1, r.rows)
              ELSE IF it.kind = "pipnone" THEN Extracted(acc, TRUE)
                   ELSE CondaRows(path, items, i + 1, acc)

get_conda_dependencies(path, f) ==
    IF f.badAt # 0 \/ f.doc.shape # "map" THEN Extracted(<<>>, TRUE)
    ELSE CondaRows(path, f.doc.items, 1, CondaPythonRows(path, f.doc.items, 1))

\* get_pip_dependencies: one specifier per line
RECURSIVE PipLines(_, _, _, _)
PipLines(path, f, i, acc) ==
    IF f.badAt # 0 /\ i >= f.badAt THEN Extracted(acc, TRUE)
    ELSE IF i > Len(f.lines) THEN Extracted(acc, FALSE)
         ELSE LET line == strip(f.lines[i]) IN
              IF line # EmptyStr /\ Head(line) # "#"
              THEN LET sp == split_dependency(line)
                   IN  PipLines(path, f, i + 1,
                                Append(acc, Dep(path, sp.package, sp.version, 2, i, 0)))
              ELSE PipLines(path, f, i + 1, acc)

get_pip_dependencies(path, f) == PipLines(path, f, 1, <<>>)

\* parse_setup_py: the string constants of install_requires; no try of its own
RECURSIVE SetupRows(_, _, _)
SetupRows(path, items, i) ==
    IF i > Len(items) THEN <<>>
    ELSE (IF items[i].kind = "str"
          THEN LET sp == split_dependency(items[i].s)
               IN  <<Dep(path, sp.package, sp.version, 2, i, 0)>>
          ELSE <<>>) \o SetupRows(path, items, i + 1)

parse_setup_py(path, f) ==
    IF f.badAt # 0 \/ f.doc.shape # "setup" THEN Extracted(<<>>, TRUE)
    ELSE Extracted(SetupRows(path, f.doc.items, 1), FALSE)

\* extractor(file_path) for the manifest type t (an index of ManifestNames)
Extractor(t, path, f, textOk) ==
    CASE t = 1 -> extract_pyproject_dependencies(path, f, textOk)
      [] t = 2 -> extract_poetry_lock_dependencies(path, f, textOk)
      [] t = 3 -> extract_pipfile_dependencies(path, f)
      [] t = 4 -> get_conda_dependencies(path, f)
      [] t = 5 -> get_pip_dependencies(path, f)
      [] t = 6 -> parse_setup_py(path, f)

\* filename.lower() of the six manifest names
LowerName == [n \in {ManifestNames[t] : t \in 1..Len(ManifestNames)} |-> lower(n)]

\* find_all_files: the positions, in walk order, of the files named filename
\* (compared in lower case)
RECURSIVE find_all_files(_, _, _)
find_all_files(fs, filename, i) ==
    IF i > Len(fs) THEN <<>>
    ELSE (IF lower(fs[i].name) = LowerName[filename] THEN <<i>> ELSE <<>>)
         \o find_all_files(fs, filename, i + 1)

\* the (type, file) pairs in the order the two loops of lines 205-211 reach them
RECURSIVE QueueOfType(_, _)
QueueOfType(t, idxs) ==
    IF idxs = <<>> THEN <<>>
    ELSE <<[type |-> t, idx |-> Head(idxs)]>> \o QueueOfType(t, Tail(idxs))
RECURSIVE ManifestQueueFrom(_, _)
ManifestQueueFrom(fs, t) ==
    IF t > Len(ManifestNames) THEN <<>>
    ELSE QueueOfType(t, find_all_files(fs, ManifestNames[t], 1))
         \o ManifestQueueFrom(fs, t + 1)
\* the queue a single walk would give: every manifest where the walk meets it
ManifestQueue_ByWalk(fs) ==
    LET IsManifest(i) == \E t \in 1..Len(ManifestNames) : lower(fs[i].name) = LowerName[ManifestNames[t]]
        TypeAt(i) == CHOOSE t \in 1..Len(ManifestNames) : lower(fs[i].name) = LowerName[ManifestNames[t]]
        RECURSIVE WalkFrom(_)
        WalkFrom(i) == IF i > Len(fs) THEN <<>>
                   ELSE (IF IsManifest(i) THEN <<[type |-> TypeAt(i), idx |-> i]>> ELSE <<>>) \o WalkFrom(i + 1)
    IN  WalkFrom(1)
ManifestQueue(fs) == ManifestQueueFrom(fs, 1)

\* file.endswith(".py")
EndsWithPy(name) ==
    Len(name) >= Len(suffix_py)
    /\ SubSeq(name, Len(name) - Len(suffix_py) + 1, Len(name)) = suffix_py

\* the modules one source file adds to the set: the loop over its lines,
\* left at the line where reading raises
\* one line of the loop of lines 164-169: what it adds, or that it raises
LineModules(line, specIsNone) ==
    LET m == ImportedModule(line)
    IN  IF ~m.matched THEN [raised |-> FALSE, add |-> {}]
        ELSE IF m.module \notin BuiltinModuleNames /\ FindSpecRaises(m.module, specIsNone)
             THEN [raised |-> TRUE, add |-> {}]
             ELSE [raised |-> FALSE,
                   add |-> IF is_builtin_module(m.module) THEN {} ELSE {m.module}]

RECURSIVE FileModules(_, _, _)
FileModules(f, i, specIsNone) ==
    IF (f.badAt # 0 /\ i >= f.badAt) \/ i > Len(f.lines) THEN {}
    ELSE LET r == LineModules(f.lines[i], specIsNone)
         IN  IF r.raised THEN {}
             ELSE r.add \cup FileModules(f, i + 1, specIsNone)

\* extract_python_file_dependencies: the set built by lines 156-171
extract_python_file_dependencies(fs, python_version, specIsNone) ==
    UNION {{Dep(i, m, python_version, 3, 0, 0) : m \in FileModules(fs[i], 1, specIsNone)} :
             i \in {k \in 1..Len(fs) : EndsWithPy(fs[k].name)}}

\* list(dependencies): the orders in which a set of tuples of str can be
\* iterated (the hash of a str changes from one interpreter run to the next)
RECURSIVE ListsOf(_)
ListsOf(S) ==
    IF S = {} THEN {<<>>}
    ELSE UNION {{<<x>> \o rest : rest \in ListsOf(S \ {x})} : x \in S}

\* the DataFrame's three columns
CsvOf(deps) ==
    [i \in 1..Len(deps) |->
        CsvRow(deps[i].path, deps[i].package,
               deps[i].version)]

(***************************************************************************)
(* extract_project_dependencies, step by step                              *)
(***************************************************************************)
ok_extract  == "Dependencies extracted and saved to all_dependencies_with_paths.csv"
raised_csv  == "OSError: Cannot save file into a non-existent directory"

ScanIdle ==
    /\ scanPc = "idle"
    /\ results = <<>>
    /\ nScanned = 0
    /\ sizeUsed = 0
    /\ lastFile = NoFile
    /\ toolOut = "none"
    /\ pdfWritten = FALSE
    /\ pdf = <<>>

InitExtract ==
    /\ ScanIdle
    /\ InferIdle
    /\ CrewIdle
    /\ mainSpecIsNone \in BOOLEAN
    /\ ResolveIdle
    /\ SplitIdle
    /\ projectPath \in {"repo", "missing", ""}
    /\ csvExists = FALSE
    /\ csvRows = <<>>
    /\ extPc = "manifests"
    /\ files \in (IF ProjectExists THEN SeqsUpTo(TreeFiles, MaxFiles) ELSE {<<>>})
    /\ tomlAcceptsText \in BOOLEAN
    /\ all_dependencies = <<>>
    /\ mIdx = 1
    /\ lastExtract = [idx |-> 0, failed |-> FALSE, before |-> <<>>]
    /\ extOut = "none"
    /\ run = 1
    /\ firstCsv = <<>>

\* one iteration of the inner loop of lines 205-211: the next manifest file
ExtractManifest ==
    /\ extPc = "manifests"
    /\ mIdx <= Len(ManifestQueue(files))
    /\ LET q == ManifestQueue(files)[mIdx]
           r == Extractor(q.type, q.idx, files[q.idx], tomlAcceptsText)
       IN  /\ all_dependencies' = all_dependencies \o r.rows
           /\ lastExtract' = [idx |-> q.idx, failed |-> r.failed, before |-> all_dependencies]
    /\ mIdx' = mIdx + 1
    /\ UNCHANGED <<projVars, scanVars, resVars, splitVars, inferVars, crewVars, extPc, files, tomlAcceptsText, extOut, run, firstCsv>>

\* line 213: the dependencies inferred from the source files, as a list
InferFromSource ==
    /\ extPc = "manifests"
    /\ mIdx > Len(ManifestQueue(files))
    /\ \E inferred \in ListsOf(extract_python_file_dependencies(files, s_latest, mainSpecIsNone)) :
          all_dependencies' = all_dependencies \o inferred
    /\ extPc' = "write"
    /\ UNCHANGED <<projVars, scanVars, resVars, splitVars, inferVars, crewVars, files, tomlAcceptsText, mIdx, lastExtract,
                   extOut, run, firstCsv>>

\* lines 215-219: to_csv and the return; to_csv raises OSError when the
\* directory of the CSV does not exist, and os.path.join("", name) is name
WriteCsv ==
    /\ extPc = "write"
    /\ extPc' = "done"
    /\ IF projectPath = "missing"
       THEN /\ extOut' = raised_csv
            /\ UNCHANGED <<csvExists, csvRows>>
       ELSE /\ extOut' = ok_extract
            /\ csvExists' = TRUE
            /\ csvRows' = CsvOf(all_dependencies)
    /\ UNCHANGED <<projectPath, scanVars, resVars, splitVars, inferVars, crewVars, files, tomlAcceptsText, all_dependencies,
                   mIdx, lastExtract, run, firstCsv>>

\* to_csv raises OSError on a directory that cannot be written
WriteCsvFails ==
    /\ extPc = "write"
    /\ projectPath # "missing"
    /\ extPc' = "done"
    /\ extOut' = raised_csv
    /\ UNCHANGED <<projVars, scanVars, resVars, splitVars, inferVars, crewVars, files, tomlAcceptsText,
                   all_dependencies, mIdx, lastExtract, run, firstCsv>>

\* the tool is run once more on the unchanged tree
RunAgain ==
    /\ extPc = "done"
    /\ run = 1
    /\ extOut = ok_extract
    /\ run' = 2
    /\ firstCsv' = csvRows
    /\ extPc' = "manifests"
    /\ all_dependencies' = <<>>
    /\ mIdx' = 1
    /\ lastExtract' = [idx |-> 0, failed |-> FALSE, before |-> <<>>]
    /\ extOut' = "none"
    /\ UNCHANGED <<projVars, scanVars, resVars, splitVars, inferVars, crewVars, files, tomlAcceptsText>>

NextExtract == ExtractManifest \/ InferFromSource \/ WriteCsv \/ WriteCsvFails \/ RunAgain

SpecExtract == InitExtract /\ [][NextExtract]_vars

(***************************************************************************)
(* load_dependency_versions_with_resolution, row by row                    *)
(***************************************************************************)
v_1_5_0 == <<"=", "=", "1", ".", "5", ".", "0">>
ResolveInputs ==
    {CsvRow(1, pk, ve) : pk \in {id_pandas, id_flask, id_Flask},
                         ve \in {v_1_5_0, v_1_0RC1, s_latest}}

InitResolve ==
    /\ ScanIdle
    /\ InferIdle
    /\ CrewIdle
    /\ mainSpecIsNone = FALSE
    /\ ExtractIdle
    /\ SplitIdle
    /\ projectPath = "repo"
    /\ csvExists = TRUE
    /\ csvRows \in SeqsUpTo(ResolveInputs, MaxRows)
    /\ resPc = "rows"
    /\ resolved_versions = <<>>
    /\ rowIdx = 1

\* one iteration of the loop of lines 132-141
ResolveNextRow ==
    /\ resPc = "rows"
    /\ rowIdx <= Len(csvRows)
    /\ resolved_versions' = ResolveRow(resolved_versions, csvRows[rowIdx])
    /\ rowIdx' = rowIdx + 1
    /\ UNCHANGED <<projVars, scanVars, extVars, splitVars, inferVars, crewVars, resPc>>

\* line 142
ResolveReturn ==
    /\ resPc = "rows"
    /\ rowIdx > Len(csvRows)
    /\ resPc' = "done"
    /\ UNCHANGED <<projVars, scanVars, extVars, splitVars, inferVars, crewVars, resolved_versions, rowIdx>>

NextResolve == ResolveNextRow \/ ResolveReturn

SpecResolve == InitResolve /\ [][NextResolve]_vars

(***************************************************************************)
(* Claims about the manifest extraction and the version resolution         *)
(***************************************************************************)
ExtractDone == extPc = "done"

\* C5: a manifest file whose read or parse fails contributes no record at
\* all, not even those of the part processed before the failure.
C5_FailedManifestAddsNothing ==
    lastExtract.failed => all_dependencies = lastExtract.before

Sentinels == {s_latest, s_python, EmptyStr}

\* C6: once the CSV is resolved, every package with a row whose declared
\* version is no sentinel resolves to that declared version (compared as the
\* code normalises it: stripped, lower case), whatever its other rows are.
C6_DeclaredVersionWins ==
    resPc = "done" =>
        \A i \in 1..Len(csvRows) :
            csvRows[i].version \notin Sentinels =>
                VersionOf(resolved_versions, csvRows[i].package)
                    = lower(strip(csvRows[i].version))

\* C7: the second run on the unchanged tree writes the CSV the first run
\* wrote, row for row.
C7_SecondRunSameCsv ==
    (run = 2 /\ ExtractDone /\ extOut = ok_extract) => csvRows = firstCsv

\* where a record of all_dependencies comes from: inferred or not, the
\* manifest type of its file, the file's place in the walk, the entry
TypeOfName(name) ==
    IF \E t \in 1..Len(ManifestNames) : lower(name) = LowerName[ManifestNames[t]]
    THEN CHOOSE t \in 1..Len(ManifestNames) : lower(name) = LowerName[ManifestNames[t]]
    ELSE 0
IsInferred(d) == d.phase = 3
DeclarationKey(d) ==
    IF IsInferred(d) THEN <<1, 0, 0, 0, 0>>
    ELSE <<0, TypeOfName(files[d.path].name), d.path, d.entry, d.sub>>
EmissionKey(d) ==
    IF IsInferred(d) THEN <<1, 0, 0, 0, 0, 0>>
    ELSE <<0, TypeOfName(files[d.path].name), d.path, d.phase, d.entry, d.sub>>
LexLeq(a, b) ==
    \/ a = b
    \/ \E k \in 1..Len(a) : a[k] < b[k] /\ \A m \in 1..(k - 1) : a[m] = b[m]

InferredTail(deps) == SelectSeq(deps, IsInferred)
NothingMerged ==
    /\ Len(InferredTail(all_dependencies)) <=
          Cardinality(extract_python_file_dependencies(files, s_latest, mainSpecIsNone))
    /\ extPc \in {"write", "done"} =>
          /\ {InferredTail(all_dependencies)[i] : i \in 1..Len(InferredTail(all_dependencies))}
                = extract_python_file_dependencies(files, s_latest, mainSpecIsNone)
          /\ Len(InferredTail(all_dependencies)) =
                Cardinality(extract_python_file_dependencies(files, s_latest, mainSpecIsNone))
    /\ (ExtractDone /\ extOut = ok_extract) => csvRows = CsvOf(all_dependencies)

\* C8 as stated: the records are in discovery order: manifest types in the
\* fixed order, files of a type in walk order, the rows of a file in the
\* order of the entries they come from, then every inferred record; nothing
\* is merged or dropped.
C8_DeclarationOrder ==
    /\ \A i \in 1..(Len(all_dependencies) - 1) :
          LexLeq(DeclarationKey(all_dependencies[i]), DeclarationKey(all_dependencies[i + 1]))
    /\ NothingMerged

\* C8 amended: as above, except that the rows of one file are in the order
\* its extractor appends them: an environment.yml contributes first a
\* "python" record for each entry starting with "python" and only then one
\* record per entry in declaration order.
C8_EmissionOrder ==
    /\ \A i \in 1..(Len(all_dependencies) - 1) :
          LexLeq(EmissionKey(all_dependencies[i]), EmissionKey(all_dependencies[i + 1]))
    /\ NothingMerged

\* a CSV holding the rows of a file that the walk reaches first but whose
\* type comes later, rows of an environment.yml, and inferred rows
C8_Witness ==
    /\ ExtractDone /\ extOut = ok_extract
    /\ \E i, j \in 1..Len(all_dependencies) :
          /\ i < j
          /\ ~IsInferred(all_dependencies[i]) /\ ~IsInferred(all_dependencies[j])
          /\ all_dependencies[i].path > all_dependencies[j].path
          /\ all_dependencies[i].phase = 1
    /\ \E i \in 1..Len(all_dependencies) : IsInferred(all_dependencies[i])
    /\ Len(csvRows) = Len(all_dependencies)

\* C9: on a project path that does not exist neither tool reports success or
\* writes its output.
C9_MissingPathNeverSucceeds ==
    ~ProjectExists =>
        /\ ExtractDone => (extOut # ok_extract /\ ~csvExists)
        /\ scanPc = "done" => (toolOut # ok_report /\ ~pdfWritten)

HasManifestOrSource(fs) ==
    \E i \in 1..Len(fs) : TypeOfName(fs[i].name) # 0 \/ EndsWithPy(fs[i].name)

\* C10: on an existing tree with no manifest and no source file the
\* extraction does not end in its success message.
C10_NothingToAnalyzeIsAnError ==
    (ProjectExists /\ ~HasManifestOrSource(files) /\ ExtractDone) => extOut # ok_extract

(***************************************************************************)
(* Claims about the report                                                  *)
(***************************************************************************)
ReportWritten == scanPc = "done" /\ pdfWritten

\* the CSV rows with the package name as a lower-case match key
RECURSIVE LowerKeyRows(_)
LowerKeyRows(rows) ==
    IF rows = <<>> THEN <<>>
    ELSE <<CsvRow(Head(rows).path, lower(Head(rows).package), Head(rows).version)>>
         \o LowerKeyRows(Tail(rows))

MatchesKey(row, root) == lower(row.package) = lower(root)

\* C11: every rendered import shows the version found for the root name of
\* its symbol under a lower-case match key: a CSV row whose package differs
\* from the root name only in letter case is matched, and the version shown
\* is "unknown" exactly when no row of the CSV matches.
C11_LowercaseKeyLookup ==
    ReportWritten =>
        \A n \in 1..Len(pdf) :
            LET root == Head(pdf[n].symbol) IN
            /\ pdf[n].version = s_unknown
                  <=> ~\E i \in 1..Len(csvRows) : MatchesKey(csvRows[i], root)
            /\ pdf[n].version =
                  VersionOf(load_dependency_versions_with_resolution(LowerKeyRows(csvRows)),
                            lower(root))

(***************************************************************************)
(* split_dependency on its own: called on a specifier string built from    *)
(* the pieces specifiers are written with                                   *)
(***************************************************************************)
SpecifierPieces == {<<"p", "k", "g">>, <<"1", ".", "2">>, <<"=", "=">>, <<">", "=">>, <<"=">>, <<" ">>, <<"@">>, <<";">>, <<"[", "x", "]">>, <<",", "<", "3">>}

RECURSIVE Concat(_)
Concat(ss) == IF ss = <<>> THEN <<>> ELSE Head(ss) \o Concat(Tail(ss))

Specifiers == {Concat(ps) : ps \in SeqsUpTo(SpecifierPieces, MaxPieces)}

InitSplit ==
    /\ ScanIdle
    /\ InferIdle
    /\ CrewIdle
    /\ mainSpecIsNone = FALSE
    /\ ExtractIdle
    /\ ResolveIdle
    /\ projectPath = "repo"
    /\ csvExists = FALSE
    /\ csvRows = <<>>
    /\ splPc = "call"
    /\ specifier \in Specifiers
    /\ splitResult = <<>>

\* lines 14-33
CallSplit ==
    /\ splPc = "call"
    /\ splitResult' = split_dependency(specifier)
    /\ splPc' = "done"
    /\ UNCHANGED <<projVars, scanVars, extVars, resVars, inferVars, crewVars, specifier>>

NextSplit == CallSplit

SpecSplit == InitSplit /\ [][NextSplit]_vars

\* what the rules of the splitter give for a specifier: the marker is cut
\* off, then the "@" rule, then name-operator-version, then the name alone,
\* else the whole trimmed string
WithoutMarker(dep) ==
    IF ";" \in Chars(strip(dep))
    THEN strip(SubSeq(strip(dep), 1, IndexOf(strip(dep), ";") - 1))
    ELSE strip(dep)

IsNameOpVersion(d) ==
    LET e1 == NameRunEnd(d, 1)
        e3 == SpaceRunEnd(d, ExtrasEnd(d, e1))
        e4 == SpaceRunEnd(d, e3 + Len(OperatorAt(d, e3)))
    IN  /\ e1 > 1
        /\ OperatorAt(d, e3) # EmptyStr
        /\ VersionRunEnd(d, e4) > e4
        /\ VersionRunEnd(d, e4) = Len(d) + 1

IsNameAlone(d) ==
    /\ NameRunEnd(d, 1) > 1
    /\ ExtrasEnd(d, NameRunEnd(d, 1)) = Len(d) + 1

SplitByRules(dep) ==
    LET d == WithoutMarker(dep) IN
    IF "@" \in Chars(d)
    THEN Split(strip(SubSeq(d, 1, IndexOf(d, "@") - 1)),
               <<"@", " ">> \o strip(From(d, IndexOf(d, "@") + 1)))
    ELSE IF IsNameOpVersion(d)
         THEN LET e1 == NameRunEnd(d, 1)
                  e3 == SpaceRunEnd(d, ExtrasEnd(d, e1))
                  op == OperatorAt(d, e3)
                  e4 == SpaceRunEnd(d, e3 + Len(op))
              IN  Split(SubSeq(d, 1, e1 - 1), op \o From(d, e4))
         ELSE IF IsNameAlone(d)
              THEN Split(SubSeq(d, 1, NameRunEnd(d, 1) - 1), s_latest)
              ELSE Split(d, s_latest)

\* C12: for every specifier the splitter returns what its rules give; in
\* particular the whole trimmed string with "latest" when the string is
\* neither name-operator-version nor a name alone nor holds an "@".
C12_SplitterRules ==
    splPc = "done" => splitResult = SplitByRules(specifier)

(***************************************************************************)
(* extract_python_file_dependencies on one readable source file, line by   *)
(* line (lines 162-171)                                                     *)
(***************************************************************************)
l_import_main == <<"i", "m", "p", "o", "r", "t", " ", "_", "_", "m", "a", "i", "n", "_", "_">>
SourceLines == {l_import_sys, l_from_dot, l_import_flask, l_import_numpy, l_from_os,
                l_import_main, l_setup_call}

InitInfer ==
    /\ ScanIdle
    /\ CrewIdle
    /\ ExtractIdle
    /\ ResolveIdle
    /\ SplitIdle
    /\ projectPath = "repo"
    /\ csvExists = FALSE
    /\ csvRows = <<>>
    /\ infPc = "lines"
    /\ sourceFile \in SeqsUpTo(SourceLines, MaxLines)
    /\ lineIdx = 1
    /\ found = {}
    /\ mainSpecIsNone \in BOOLEAN

\* lines 164-169: one line is matched and its module added
InferLine ==
    /\ infPc = "lines"
    /\ lineIdx <= Len(sourceFile)
    /\ ~LineModules(sourceFile[lineIdx], mainSpecIsNone).raised
    /\ found' = found \cup LineModules(sourceFile[lineIdx], mainSpecIsNone).add
    /\ lineIdx' = lineIdx + 1
    /\ UNCHANGED <<projVars, scanVars, extVars, resVars, splitVars, crewVars, infPc, sourceFile, mainSpecIsNone>>

\* lines 170-171: is_builtin_module raised, the rest of the file is not read
InferRaises ==
    /\ infPc = "lines"
    /\ lineIdx <= Len(sourceFile)
    /\ LineModules(sourceFile[lineIdx], mainSpecIsNone).raised
    /\ infPc' = "done"
    /\ UNCHANGED <<projVars, scanVars, extVars, resVars, splitVars, crewVars, sourceFile, lineIdx, found, mainSpecIsNone>>

\* the file is read to its end
InferEnd ==
    /\ infPc = "lines"
    /\ lineIdx > Len(sourceFile)
    /\ infPc' = "done"
    /\ UNCHANGED <<projVars, scanVars, extVars, resVars, splitVars, crewVars, sourceFile, lineIdx, found, mainSpecIsNone>>

NextInfer == InferLine \/ InferRaises \/ InferEnd

SpecInfer == InitInfer /\ [][NextInfer]_vars

\* a module the search path locates: find_spec gives a spec for it
IsLocated(module_name) ==
    module_name \in Locatable /\ ~FindSpecRaises(module_name, mainSpecIsNone)

\* C13: for a readable source file, every module named by an import or
\* from-import at the start of one of its lines is in the result exactly
\* when it is neither builtin nor unlocatable, whatever the other lines of
\* the file are; the result is a set, so no record is there twice.
C13_EveryImportLineCounted ==
    infPc = "done" =>
        \A i \in 1..Len(sourceFile) :
            LET m == ImportedModule(sourceFile[i]) IN
            m.matched =>
                (m.module \in found
                    <=> (m.module \notin BuiltinModuleNames /\ IsLocated(m.module)))

\* the groups analyze_repo builds for one file in import_map and usage_map
\* (lines 85-95): per alias the import and the usages filed under it
RECURSIVE GroupsOfMaps(_, _, _)
GroupsOfMaps(file_path, imap, usage) ==
    IF imap = <<>> THEN <<>>
    ELSE LET imp == Head(imap).v
             us  == UsagesOf(usage, Head(imap).k)
         IN  <<[symbol |-> imp.module, file |-> file_path, lineno |-> imp.lineno,
                code |-> imp.code,
                usages |-> [k \in 1..Len(us) |-> [lineno |-> us[k].lineno, code |-> us[k].code]]]>>
             \o GroupsOfMaps(file_path, Tail(imap), usage)

ScanGroups(file_path, f) ==
    IF ~f.readable \/ ~Parse(f.stmts).ok THEN <<>>
    ELSE LET v == Visit(Parse(f.stmts).val, NewVisitor(splitlines(f.stmts)))
         IN  GroupsOfMaps(file_path, import_map(v), v.usage)

\* the groups the report renders for a record list: its entries without the
\* running number and the version
RenderedGroups(res) ==
    LET r == RenderFrom(res, 1, 1, <<>>)
    IN  [n \in 1..Len(r) |->
            [symbol |-> r[n].symbol, file |-> r[n].file, lineno |-> r[n].lineno,
             code |-> r[n].code, usages |-> r[n].usages]]

CountOfType(res, t) == Cardinality({i \in 1..Len(res) : res[i].type = t})

RECURSIVE SumUsages(_)
SumUsages(groups) ==
    IF groups = <<>> THEN 0 ELSE Len(Head(groups).usages) + SumUsages(Tail(groups))

\* C14: the sequential grouping of the report gives back the groups of the
\* scan: after every file, the groups rendered from the record list are
\* those rendered before the file followed by the groups of the file's
\* alias-to-usages map (none for a file that failed); every Import record
\* heads one group, every Usage record is rendered once, and the written
\* report holds those groups numbered from 1.
C14_GroupingRecoversScanGroups ==
    /\ (scanPc = "walk" /\ Scanned) =>
          LET groups == RenderedGroups(results) IN
          /\ groups = RenderedGroups(lastFile.before)
                          \o ScanGroups(lastFile.path, lastFile.file)
          /\ Len(groups) = CountOfType(results, "import")
          /\ SumUsages(groups) = CountOfType(results, "usage")
    /\ ReportWritten =>
          LET groups == RenderedGroups(results) IN
          /\ Len(pdf) = Len(groups)
          /\ \A n \in 1..Len(pdf) :
                /\ pdf[n].count = n
                /\ [symbol |-> pdf[n].symbol, file |-> pdf[n].file, lineno |-> pdf[n].lineno,
                    code |-> pdf[n].code, usages |-> pdf[n].usages] = groups[n]

\* a written report after a scan with a failed file, in which a group with
\* two usages is followed by another group of the same file
C14_Witness ==
    /\ ReportWritten
    /\ CountOfType(results, "error") >= 1
    /\ \E n, k \in 1..Len(pdf) :
          /\ n < k
          /\ pdf[n].file = pdf[k].file
          /\ Len(pdf[n].usages) >= 2

(***************************************************************************)
(* Automation.crew (crew.py lines 77-96) and the sequential kickoff: the   *)
(* clone task makes the project tree, the dependency task runs             *)
(* extract_project_dependencies on it and the import task runs             *)
(* generate_ast_usage_pdf on it.                                            *)
(***************************************************************************)
t_clone_all    == "clone_repositories_task"
t_clone_single == "clone_single_repo_task"
t_extract      == "extract_dependencies_task"
t_imports      == "extract_imports_task"

\* a crew that appends the import task before the dependency task
BuildTasks_ImportsFirst(repo_url) ==
    <<IF repo_url THEN t_clone_single ELSE t_clone_all, t_imports, t_extract>>
\* lines 79-89
BuildTasks(repo_url) ==
    <<IF repo_url THEN t_clone_single ELSE t_clone_all, t_extract, t_imports>>

\* the source files a cloned tree can hold, and the file of the tree each is
CrewSources == {<<ImportPandasAsPd, CallReadCsv>>, <<FromOsImportPath>>, <<BadSyntax>>}
CrewPy(stmts) == TreeFile(n_app_py, splitlines(stmts), 0, NoDoc)
CrewFiles == {RequirementsOk, CondaPython} \cup {CrewPy(ss) : ss \in CrewSources}

\* the .py files of the tree in walk order, as analyze_repo reads them
PyFiles(fs) == SelectSeq(fs, LAMBDA f : EndsWithPy(f.name))
SourceView(f) == SourceFile(TRUE, CHOOSE ss \in CrewSources : splitlines(ss) = f.lines)

InitCrew ==
    /\ ScanIdle
    /\ ExtractIdle
    /\ ResolveIdle
    /\ SplitIdle
    /\ InferIdle
    /\ mainSpecIsNone \in BOOLEAN
    /\ projectPath = "missing"
    /\ csvExists = FALSE
    /\ csvRows = <<>>
    /\ crewPc = "new"
    /\ repoUrlSet \in BOOLEAN
    /\ tasks = <<>>
    /\ taskIdx = 1
    /\ executed = <<>>

\* Automation().crew()
BuildCrew ==
    /\ crewPc = "new"
    /\ tasks' = BuildTasks(repoUrlSet)
    /\ crewPc' = "run"
    /\ UNCHANGED <<projVars, scanVars, extVars, resVars, splitVars, inferVars,
                   repoUrlSet, taskIdx, executed>>

\* the tool of the task last started has not returned yet
ToolRunning == extPc \in {"manifests", "write"} \/ scanPc \in {"start", "walk", "report"}

TaskReady(t) ==
    /\ crewPc = "run"
    /\ ~ToolRunning
    /\ taskIdx <= Len(tasks)
    /\ tasks[taskIdx] = t

\* the clone task: clone_github_repo_tool leaves the repository at its path
\* (cloned now or there already) or fails to clone it
CloneTask ==
    /\ \E t \in {t_clone_all, t_clone_single} :
          /\ TaskReady(t)
          /\ executed' = Append(executed, t)
    /\ taskIdx' = taskIdx + 1
    /\ \E cloned \in BOOLEAN :
          IF cloned
          THEN /\ projectPath' = "repo"
               /\ files' \in SeqsUpTo(CrewFiles, MaxFiles)
          ELSE /\ projectPath' = "missing"
               /\ files' = <<>>
    /\ UNCHANGED <<csvExists, csvRows, scanVars, resVars, splitVars, inferVars,
                   extPc, tomlAcceptsText, all_dependencies, mIdx, lastExtract, extOut,
                   run, firstCsv, crewPc, repoUrlSet, tasks>>

\* the dependency task calls extract_project_dependencies
ExtractTask ==
    /\ TaskReady(t_extract)
    /\ extPc = "idle"
    /\ executed' = Append(executed, t_extract)
    /\ taskIdx' = taskIdx + 1
    /\ extPc' = "manifests"
    /\ UNCHANGED <<projVars, scanVars, resVars, splitVars, inferVars,
                   files, tomlAcceptsText, all_dependencies, mIdx, lastExtract, extOut,
                   run, firstCsv, crewPc, repoUrlSet, tasks>>

\* the import task calls generate_ast_usage_pdf
ImportsTask ==
    /\ TaskReady(t_imports)
    /\ scanPc = "idle"
    /\ executed' = Append(executed, t_imports)
    /\ taskIdx' = taskIdx + 1
    /\ scanPc' = "start"
    /\ UNCHANGED <<projVars, extVars, resVars, splitVars, inferVars,
                   results, nScanned, sizeUsed, lastFile, toolOut, pdfWritten, pdf,
                   crewPc, repoUrlSet, tasks>>

\* analyze_repo reads the next .py file of the cloned tree
CrewScanFile ==
    /\ scanPc = "walk"
    /\ nScanned < Len(PyFiles(files))
    /\ LET f == SourceView(PyFiles(files)[nScanned + 1]) IN
          /\ results' = results \o FileRecords(nScanned + 1, f)
          /\ lastFile' = [path |-> nScanned + 1, file |-> f, before |-> results]
          /\ sizeUsed' = sizeUsed + FileSize(f)
    /\ nScanned' = nScanned + 1
    /\ UNCHANGED <<projVars, extVars, resVars, splitVars, inferVars, crewVars,
                   scanPc, toolOut, pdfWritten, pdf>>

\* the walk has read every .py file of the tree
CrewWalkDone ==
    /\ nScanned = Len(PyFiles(files))
    /\ WalkDone

\* kickoff returns
CrewEnd ==
    /\ crewPc = "run"
    /\ ~ToolRunning
    /\ taskIdx > Len(tasks)
    /\ crewPc' = "done"
    /\ UNCHANGED <<projVars, scanVars, extVars, resVars, splitVars, inferVars,
                   repoUrlSet, tasks, taskIdx, executed>>

NextCrew ==
    \/ BuildCrew \/ CloneTask \/ ExtractTask \/ ImportsTask \/ CrewEnd
    \/ ExtractManifest \/ InferFromSource \/ WriteCsv \/ WriteCsvFails
    \/ ToolStart \/ CrewScanFile \/ CrewWalkDone \/ Report \/ ReportWriteFails

SpecCrew == InitCrew /\ [][NextCrew]_vars

IsPrefix(a, b) == Len(a) <= Len(b) /\ SubSeq(b, 1, Len(a)) = a

\* C15: a crew run executes one clone task (the single-repository one when
\* REPO_URL is set, else the all-repositories one), then the dependency
\* task, then the import task: the report tool starts only after the
\* extraction has ended, and a report that was written read the CSV this
\* extraction wrote; on an existing project path without the CSV the report
\* tool ends with an error message and without a PDF.
C15_StageOrder ==
    /\ IsPrefix(executed,
                <<IF repoUrlSet THEN t_clone_single ELSE t_clone_all, t_extract, t_imports>>)
    /\ crewPc = "done" => Len(executed) = 3
    /\ extPc # "idle" => Len(executed) >= 2
    /\ scanPc # "idle" => extPc = "done"
    /\ pdfWritten => (csvExists /\ csvRows = CsvOf(all_dependencies))
    /\ (scanPc = "done" /\ ProjectExists /\ ~csvExists) =>
          (toolOut \in {err_no_csv, err_no_result} /\ ~pdfWritten)

\* the crew has run its three tasks on a cloned tree with a source file, the
\* extraction could not write the CSV, and the report tool has returned
C15_Witness ==
    /\ crewPc = "done"
    /\ Len(executed) = 3
    /\ ProjectExists
    /\ ~csvExists
    /\ results # <<>>
    /\ scanPc = "done"
    /\ toolOut = err_no_csv

====
